---- MODULE Spec2Model ----
(***************************************************************************)
(* Gateway service layer of moltbot: the PM2 adapter (pm2.ts) and the      *)
(* Linux branch of resolveGatewayService (service.ts), which chains the    *)
(* systemd-user adapter and the PM2 adapter.                               *)
(*                                                                         *)
(* The external world is the systemd-user manager (reachable or not, one   *)
(* unit), and the pm2 tool (installed or not, a process list, a dump       *)
(* file).  Every handler is one action: it runs the whole body of the      *)
(* handler on the world and records what it called, what it returned and   *)
(* whether it threw.  The world does not change while a handler runs (the  *)
(* caller awaits one operation at a time); it changes between handlers.    *)
(*                                                                         *)
(* The module also holds the proxy-fetch component (proxy-fetch.ts): the   *)
(* global fetch, the three module-level variables that remember what was   *)
(* installed, and one action per exported function; ProxySpec is its       *)
(* specification.                                                          *)
(***************************************************************************)
EXTENDS Integers, Sequences, FiniteSets, TLC

\* Bound: the number of processes of other applications in the PM2 list.
MaxOthers == 1

\* Bound: the depth of nested calls a fetch may make before the call stack
\* overflows.
MaxDepth == 3

\* resolvePm2ServiceName(env): the service name derived from the profile.
SVC == "svc"
\* The name of a process that belongs to another application.
FOREIGN == "other"

VARIABLES
    sdAvail,    \* systemd-user: the user service bus is reachable
    sdUnit,     \* systemd-user: "none" | "active" | "inactive"
    pm2Avail,   \* pm2: `pm2 --version` exits 0
    pm2List,    \* pm2: the process list (what `pm2 jlist` prints)
    pm2Dump,    \* pm2: the dump written by `pm2 save` holds the service
    op,         \* the last operation run
    faults,     \* the external failures injected into that operation
    pre,        \* the world before that operation
    calls,      \* the adapter functions the resolver called, in order
    cmds,       \* the pm2 commands issued, in order, each with its exit code
    out,        \* the lines written to stdout
    caught,     \* the adapter calls whose error the resolver swallowed
    thrown,     \* the operation ended by throwing
    err,        \* the error thrown
    ret,        \* the value returned
    globalFetch,        \* globalThis.fetch
    originalFetch,      \* proxy-fetch.ts: the saved fetch, or undefined
    proxyInstalled,     \* proxy-fetch.ts: a proxy fetch is installed
    installedProxyUrl,  \* proxy-fetch.ts: its URL, or undefined
    firstFetch,         \* globalThis.fetch when the process started
    lastUrl,            \* the URL of the last installProxyFetch that returned
    pxOp,               \* the last proxy-fetch function called
    pxArg,              \* its argument
    pxPre,              \* the proxy-fetch state before it
    pxThrown,           \* it ended by throwing
    pxRet               \* the value it returned

svcVars == <<sdAvail, sdUnit, pm2Avail, pm2List, pm2Dump, op, faults, pre,
             calls, cmds, out, caught, thrown, err, ret>>

proxyVars == <<globalFetch, originalFetch, proxyInstalled, installedProxyUrl,
               firstFetch, lastUrl, pxOp, pxArg, pxPre, pxThrown, pxRet>>

vars == <<svcVars, proxyVars>>

----------------------------------------------------------------------------
(* Values *)

Void == [kind |-> "void"]
NoErr == [kind |-> "none"]
Null == [kind |-> "null"]
Bool(b) == [kind |-> "bool", b |-> b]

\* JavaScript's `a || b` on strings: the empty string is falsy.
OrElse(a, b) == IF a # "" THEN a ELSE b

\* JavaScript's `!rt.missingUnit`: an absent field is undefined, falsy.
MissingUnit(rt) == "missingUnit" \in DOMAIN rt /\ rt.missingUnit

\* The world a handler runs on, with empty traces.
World ==
    [sdAvail |-> sdAvail, sdUnit |-> sdUnit, pm2Avail |-> pm2Avail,
     pm2List |-> pm2List, pm2Dump |-> pm2Dump,
     calls |-> <<>>, cmds |-> <<>>, out |-> <<>>, caught |-> <<>>]

Call(w, c) == [w EXCEPT !.calls = Append(@, c)]

HasSvc(list) == \E i \in 1..Len(list) : list[i].name = SVC

IsSvc(p) == p.name = SVC
NotSvc(p) == p.name # SVC

NumOthers(list) == Len(SelectSeq(list, NotSvc))

----------------------------------------------------------------------------
(* The pm2 tool, as the adapter consumes it *)

NewPid(list) ==
    IF \E i \in 1..Len(list) : list[i].name = SVC /\ list[i].pid = 101
    THEN 102 ELSE 101

SvcEntry(pid) == [name |-> SVC, status |-> "online", pid |-> pid, exit_code |-> 0]

StopEntry(p) == IF p.name = SVC THEN [p EXCEPT !.status = "stopped", !.pid = 0] ELSE p

RestartEntry(list, p) ==
    IF p.name = SVC THEN [p EXCEPT !.status = "online", !.pid = NewPid(list)] ELSE p

StopAll(list) == [i \in 1..Len(list) |-> StopEntry(list[i])]

RestartAll(list) == [i \in 1..Len(list) |-> RestartEntry(list, list[i])]

\* What `pm2 jlist` prints for one process; noenv drops the pm2_env object.
JEntry(p, noenv) ==
    [name |-> p.name, hasEnv |-> ~noenv, status |-> p.status, pid |-> p.pid,
     exit_code |-> p.exit_code]

JList(list, noenv) == [i \in 1..Len(list) |-> JEntry(list[i], noenv)]

\* A field that is absent from a JSON object reads as undefined.
Undefined == "undefined"

\* `pm2 jlist` output whose pm2_env objects carry no status.
DropStatus(jlist) == [i \in 1..Len(jlist) |-> [jlist[i] EXCEPT !.status = Undefined]]

\* One run of the pm2 binary, found and started: its exit code, its output and
\* its effect on the process list and the dump.  f is the set of injected
\* failures.
Pm2Tool(w, f, cmd) ==
    LET fail == [w |-> w, code |-> 1, stdout |-> "", stderr |-> "pm2 error"]
        miss == [w |-> w, code |-> 1, stdout |-> "process not found", stderr |-> ""]
        ok(w1) == [w |-> w1, code |-> 0, stdout |-> "ok", stderr |-> ""]
    IN  CASE cmd \in f -> fail
          [] cmd = "--version" -> ok(w)
          [] cmd = "delete" ->
                IF HasSvc(w.pm2List)
                THEN ok([w EXCEPT !.pm2List = SelectSeq(@, NotSvc)])
                ELSE miss
          [] cmd = "start" ->
                IF HasSvc(w.pm2List)
                THEN [fail EXCEPT !.stderr = "script already launched"]
                ELSE ok([w EXCEPT !.pm2List = Append(@, SvcEntry(101))])
          [] cmd = "save" -> ok([w EXCEPT !.pm2Dump = HasSvc(w.pm2List)])
          [] cmd = "stop" ->
                IF HasSvc(w.pm2List)
                THEN ok([w EXCEPT !.pm2List = StopAll(@)])
                ELSE miss
          [] cmd = "restart" ->
                IF HasSvc(w.pm2List)
                THEN ok([w EXCEPT !.pm2List = RestartAll(@)])
                ELSE miss
          [] cmd = "describe" -> IF HasSvc(w.pm2List) THEN ok(w) ELSE miss
          [] cmd = "jlist" ->
                [w |-> w, code |-> 0, stderr |-> "",
                 stdout |->
                    IF "jlist.garbage" \in f THEN [kind |-> "text"]
                    ELSE IF "jlist.object" \in f THEN [kind |-> "object"]
                    ELSE IF "jlist.nostatus" \in f
                    THEN [kind |-> "array",
                          list |-> DropStatus(JList(w.pm2List, FALSE))]
                    ELSE [kind |-> "array",
                          list |-> JList(w.pm2List, "jlist.noenv" \in f)]]

----------------------------------------------------------------------------
(* pm2.ts *)

\* execPm2: run pm2 and capture {stdout, stderr, code}; never throws.  When
\* the binary cannot be spawned the error has no numeric code and the code
\* is 1, with the error's message as stderr.
execPm2(w, f, cmd) ==
    LET r == IF ~w.pm2Avail
             THEN [w |-> w, code |-> 1, stdout |-> "", stderr |-> "spawn pm2 ENOENT"]
             ELSE Pm2Tool(w, f, cmd)
    IN  [r EXCEPT !.w.cmds = Append(@, [cmd |-> cmd, code |-> r.code])]

isPm2Available(w, f) ==
    LET res == execPm2(w, f, "--version")
    IN  [w |-> res.w, ret |-> (res.code = 0)]

Pm2Unavailable == [kind |-> "Error", message |-> "pm2 not available", detail |-> ""]

assertPm2Available(w, f) ==
    LET a == isPm2Available(w, f)
    IN  [w |-> a.w, thrown |-> ~a.ret,
         err |-> IF a.ret THEN NoErr ELSE Pm2Unavailable]

Throw(w, e) == [w |-> w, thrown |-> TRUE, err |-> e, ret |-> Void]
Return(w, v) == [w |-> w, thrown |-> FALSE, err |-> NoErr, ret |-> v]
Write(w, line) == [w EXCEPT !.out = Append(@, line)]

Error(message, detail) == [kind |-> "Error", message |-> message, detail |-> detail]

\* Mutant of installPm2Service: the exit code of `pm2 save` is not checked.
installPm2Service_SaveUnchecked(w, f) ==
    LET a == assertPm2Available(w, f)
    IN  IF a.thrown THEN Throw(a.w, a.err)
        ELSE
        LET del == execPm2(a.w, f, "delete")
            start == execPm2(del.w, f, "start")
        IN  IF start.code # 0
            THEN Throw(start.w,
                       Error("pm2 start failed", OrElse(start.stderr, start.stdout)))
            ELSE
            LET save == execPm2(start.w, f, "save")
            IN  Return(Write(Write(save.w, ""), "Installed PM2 service"), Void)

\* Mutant of installPm2Service: the prior unit is not deleted before start.
installPm2Service_NoDelete(w, f) ==
    LET a == assertPm2Available(w, f)
    IN  IF a.thrown THEN Throw(a.w, a.err)
        ELSE
        LET start == execPm2(a.w, f, "start")
        IN  IF start.code # 0
            THEN Throw(start.w,
                       Error("pm2 start failed", OrElse(start.stderr, start.stdout)))
            ELSE
            LET save == execPm2(start.w, f, "save")
            IN  IF save.code # 0
                THEN Throw(save.w,
                           Error("pm2 save failed", OrElse(save.stderr, save.stdout)))
                ELSE Return(Write(Write(save.w, ""), "Installed PM2 service"), Void)

installPm2Service(w, f) ==
    LET a == assertPm2Available(w, f)
    IN  IF a.thrown THEN Throw(a.w, a.err)
        ELSE
        LET del == execPm2(a.w, f, "delete")
            start == execPm2(del.w, f, "start")
        IN  IF start.code # 0
            THEN Throw(start.w,
                       Error("pm2 start failed", OrElse(start.stderr, start.stdout)))
            ELSE
            LET save == execPm2(start.w, f, "save")
            IN  IF save.code # 0
                THEN Throw(save.w,
                           Error("pm2 save failed", OrElse(save.stderr, save.stdout)))
                ELSE Return(Write(Write(save.w, ""), "Installed PM2 service"), Void)

uninstallPm2Service(w, f) ==
    LET a == assertPm2Available(w, f)
    IN  IF a.thrown THEN Throw(a.w, a.err)
        ELSE
        LET del == execPm2(a.w, f, "delete")
            save == execPm2(del.w, f, "save")
        IN  Return(Write(save.w, "Removed PM2 service"), Void)

stopPm2Service(w, f) ==
    LET a == assertPm2Available(w, f)
    IN  IF a.thrown THEN Throw(a.w, a.err)
        ELSE
        LET res == execPm2(a.w, f, "stop")
        IN  Return(Write(res.w, "Stopped PM2 service"), Void)

restartPm2Service(w, f) ==
    LET a == assertPm2Available(w, f)
    IN  IF a.thrown THEN Throw(a.w, a.err)
        ELSE
        LET res == execPm2(a.w, f, "restart")
        IN  Return(Write(res.w, "Restarted PM2 service"), Void)

isPm2ServiceEnabled(w, f) ==
    LET a == isPm2Available(w, f)
    IN  IF ~a.ret THEN [w |-> a.w, ret |-> FALSE]
        ELSE
        LET res == execPm2(a.w, f, "describe")
        IN  [w |-> res.w, ret |-> (res.code = 0)]

\* JSON.parse(res.stdout) followed by list.find(...): throws on text that is
\* no JSON and on a JSON value that is no array.
ParsesToArray(stdout) == stdout.kind = "array"

\* list.find((p) => p.name === serviceName): the index of the first entry of
\* that name, 0 when there is none.
\* Mutant of FindByName: the first entry of the list is taken.
FindByName_FirstEntry(list, name) == IF Len(list) > 0 THEN 1 ELSE 0

FindByName(list, name) ==
    IF \E i \in 1..Len(list) : list[i].name = name
    THEN CHOOSE i \in 1..Len(list) :
            /\ list[i].name = name
            /\ \A j \in 1..(i - 1) : list[j].name # name
    ELSE 0

\* Mutant of readPm2ServiceRuntime: no try/catch around the parse and the
\* field reads, so their TypeError or SyntaxError leaves the function.
readPm2ServiceRuntime_ParseUncaught(w, f) ==
    LET a == assertPm2Available(w, f)
    IN  IF a.thrown
        THEN Return(a.w, [status |-> "unknown", detail |-> a.err.message])
        ELSE
        LET res == execPm2(a.w, f, "jlist")
        IN  IF res.code # 0
            THEN Return(res.w, [status |-> "unknown",
                                detail |-> OrElse(res.stderr, res.stdout)])
            ELSE IF ~ParsesToArray(res.stdout)
            THEN Throw(res.w, Error("SyntaxError", ""))
            ELSE
            LET list == res.stdout.list
                i == FindByName(list, SVC)
            IN  IF i = 0
                THEN Return(res.w, [status |-> "stopped", missingUnit |-> TRUE])
                ELSE IF ~list[i].hasEnv
                THEN Throw(res.w, Error("TypeError", ""))
                ELSE Return(res.w,
                        [status |-> IF list[i].status = "online"
                                    THEN "running" ELSE "stopped",
                         state |-> list[i].status,
                         pid |-> list[i].pid,
                         lastExitStatus |-> list[i].exit_code])

\* Mutant of readPm2ServiceRuntime: a failed `pm2 jlist` is reported as a
\* missing unit.
readPm2ServiceRuntime_FailureIsMissing(w, f) ==
    LET a == assertPm2Available(w, f)
    IN  IF a.thrown
        THEN Return(a.w, [status |-> "unknown", detail |-> a.err.message])
        ELSE
        LET res == execPm2(a.w, f, "jlist")
        IN  IF res.code # 0
            THEN Return(res.w, [status |-> "unknown", missingUnit |-> TRUE,
                                detail |-> OrElse(res.stderr, res.stdout)])
            ELSE IF ~ParsesToArray(res.stdout)
            THEN Return(res.w, [status |-> "unknown"])
            ELSE
            LET list == res.stdout.list
                i == FindByName(list, SVC)
            IN  IF i = 0
                THEN Return(res.w, [status |-> "stopped", missingUnit |-> TRUE])
                ELSE IF ~list[i].hasEnv
                THEN Return(res.w, [status |-> "unknown"])
                ELSE Return(res.w,
                        [status |-> IF list[i].status = "online"
                                    THEN "running" ELSE "stopped",
                         state |-> list[i].status,
                         pid |-> list[i].pid,
                         lastExitStatus |-> list[i].exit_code])

readPm2ServiceRuntime(w, f) ==
    LET a == assertPm2Available(w, f)
    IN  IF a.thrown
        THEN Return(a.w, [status |-> "unknown", detail |-> a.err.message])
        ELSE
        LET res == execPm2(a.w, f, "jlist")
        IN  IF res.code # 0
            THEN Return(res.w, [status |-> "unknown",
                                detail |-> OrElse(res.stderr, res.stdout)])
            ELSE IF ~ParsesToArray(res.stdout)
            THEN Return(res.w, [status |-> "unknown"])
            ELSE
            LET list == res.stdout.list
                i == FindByName(list, SVC)
            IN  IF i = 0
                THEN Return(res.w, [status |-> "stopped", missingUnit |-> TRUE])
                ELSE IF ~list[i].hasEnv
                THEN Return(res.w, [status |-> "unknown"])
                ELSE Return(res.w,
                        [status |-> IF list[i].status = "online"
                                    THEN "running" ELSE "stopped",
                         state |-> list[i].status,
                         pid |-> list[i].pid,
                         lastExitStatus |-> list[i].exit_code])

\* The snapshot keeps the backend it was read from and the process it
\* describes; the argv itself is not modelled.
readPm2ServiceCommand(w, f) ==
    LET res == execPm2(w, f, "jlist")
    IN  IF res.code # 0 THEN Return(res.w, Null)
        ELSE IF ~ParsesToArray(res.stdout) THEN Return(res.w, Null)
        ELSE
        LET list == res.stdout.list
            i == FindByName(list, SVC)
        IN  IF i = 0 THEN Return(res.w, Null)
            ELSE IF ~list[i].hasEnv THEN Return(res.w, Null)
            ELSE Return(res.w, [kind |-> "command", backend |-> "pm2"])

----------------------------------------------------------------------------
(* systemd.ts: the systemd-user adapter, by its contract *)

isSystemdUserServiceAvailable(w) == w.sdAvail

isSystemdServiceEnabled(w) == w.sdAvail /\ w.sdUnit # "none"

installSystemdService(w, f) ==
    IF ~w.sdAvail THEN Throw(w, Error("systemctl unavailable", "no user bus"))
    ELSE IF "sd.install" \in f THEN Throw(w, Error("systemctl enable failed", "error"))
    ELSE Return(Write([w EXCEPT !.sdUnit = "active"], "Installed systemd service"), Void)

uninstallSystemdService(w, f) ==
    IF ~w.sdAvail THEN Throw(w, Error("systemctl unavailable", "no user bus"))
    ELSE IF "sd.uninstall" \in f THEN Throw(w, Error("systemctl disable failed", "error"))
    ELSE Return(Write([w EXCEPT !.sdUnit = "none"], "Removed systemd service"), Void)

stopSystemdService(w, f) ==
    IF ~w.sdAvail THEN Throw(w, Error("systemctl stop failed", "no user bus"))
    ELSE IF w.sdUnit = "none" THEN Throw(w, Error("systemctl stop failed", "unit not found"))
    ELSE IF "sd.stop" \in f THEN Throw(w, Error("systemctl stop failed", "error"))
    ELSE Return(Write([w EXCEPT !.sdUnit = "inactive"], "Stopped systemd service"), Void)

restartSystemdService(w, f) ==
    IF ~w.sdAvail THEN Throw(w, Error("systemctl restart failed", "no user bus"))
    ELSE IF w.sdUnit = "none" THEN Throw(w, Error("systemctl restart failed", "unit not found"))
    ELSE IF "sd.restart" \in f THEN Throw(w, Error("systemctl restart failed", "error"))
    ELSE Return(Write([w EXCEPT !.sdUnit = "active"], "Restarted systemd service"), Void)

readSystemdServiceExecStart(w, f) ==
    IF ~w.sdAvail \/ w.sdUnit = "none" \/ "sd.read" \in f THEN Null
    ELSE [kind |-> "command", backend |-> "systemd"]

readSystemdServiceRuntime(w, f) ==
    IF ~w.sdAvail \/ "sd.runtime" \in f
    THEN [status |-> "unknown", detail |-> "systemctl show failed"]
    ELSE IF w.sdUnit = "none"
    THEN [status |-> "stopped", detail |-> "unit not found", missingUnit |-> TRUE]
    ELSE [status |-> IF w.sdUnit = "active" THEN "running" ELSE "stopped",
          state |-> w.sdUnit]

----------------------------------------------------------------------------
(* service.ts: resolveGatewayService(), process.platform === "linux" *)

\* try { await call } catch {}: the call's effects stay, its error is dropped.
Swallow(res, name) ==
    IF res.thrown THEN [res.w EXCEPT !.caught = Append(@, name)] ELSE res.w

ProbeSystemd(w) ==
    [w |-> Call(w, "sd.avail"), ret |-> isSystemdUserServiceAvailable(w)]

ProbePm2(w, f) == isPm2Available(Call(w, "pm2.avail"), f)

\* (await isSystemdUserServiceAvailable()) && (await isSystemdServiceEnabled(..))
\* Mutant of SystemdAvailableAndEnabled: systemd-user is trusted whenever it
\* is available.
SystemdAvailableAndEnabled_AvailableOnly(w) ==
    LET s == ProbeSystemd(w)
    IN  [w |-> s.w, ret |-> s.ret]

SystemdAvailableAndEnabled(w) ==
    LET s == ProbeSystemd(w)
    IN  IF s.ret
        THEN [w |-> Call(s.w, "sd.enabled"), ret |-> isSystemdServiceEnabled(s.w)]
        ELSE [w |-> s.w, ret |-> FALSE]

\* (await isPm2Available()) && (await isPm2ServiceEnabled(..))
Pm2AvailableAndEnabled(w, f) ==
    LET p == ProbePm2(w, f)
    IN  IF p.ret
        THEN isPm2ServiceEnabled(Call(p.w, "pm2.enabled"), f)
        ELSE [w |-> p.w, ret |-> FALSE]

\* Mutant of LinuxInstall: nothing is attempted when no backend is available.
LinuxInstall_SilentNoop(w, f) ==
    LET s == ProbeSystemd(w)
    IN  IF s.ret THEN installSystemdService(Call(s.w, "sd.install"), f)
        ELSE
        LET p == ProbePm2(s.w, f)
        IN  IF p.ret THEN installPm2Service(Call(p.w, "pm2.install"), f)
            ELSE Return(p.w, Void)

LinuxInstall(w, f) ==
    LET s == ProbeSystemd(w)
    IN  IF s.ret THEN installSystemdService(Call(s.w, "sd.install"), f)
        ELSE
        LET p == ProbePm2(s.w, f)
        IN  IF p.ret THEN installPm2Service(Call(p.w, "pm2.install"), f)
            ELSE installSystemdService(Call(p.w, "sd.install"), f)

\* Mutant of LinuxUninstall: PM2 is cleaned only when systemd-user was not.
LinuxUninstall_FirstAvailableOnly(w, f) ==
    LET s == ProbeSystemd(w)
    IN  IF s.ret
        THEN Return(Swallow(uninstallSystemdService(Call(s.w, "sd.uninstall"), f),
                            "sd.uninstall"), Void)
        ELSE
        LET p == ProbePm2(s.w, f)
        IN  IF p.ret
            THEN Return(Swallow(uninstallPm2Service(Call(p.w, "pm2.uninstall"), f),
                                "pm2.uninstall"), Void)
            ELSE Return(p.w, Void)

\* Mutant of LinuxUninstall: the systemd-user removal is not wrapped in
\* try/catch, so its error ends the uninstall.
LinuxUninstall_SystemdUncaught(w, f) ==
    LET s == ProbeSystemd(w)
        u == IF s.ret THEN uninstallSystemdService(Call(s.w, "sd.uninstall"), f)
             ELSE Return(s.w, Void)
    IN  IF u.thrown THEN u
        ELSE
        LET p == ProbePm2(u.w, f)
        IN  IF p.ret
            THEN Return(Swallow(uninstallPm2Service(Call(p.w, "pm2.uninstall"), f),
                                "pm2.uninstall"), Void)
            ELSE Return(p.w, Void)

LinuxUninstall(w, f) ==
    LET s == ProbeSystemd(w)
        w1 == IF s.ret
              THEN Swallow(uninstallSystemdService(Call(s.w, "sd.uninstall"), f),
                           "sd.uninstall")
              ELSE s.w
        p == ProbePm2(w1, f)
        w2 == IF p.ret
              THEN Swallow(uninstallPm2Service(Call(p.w, "pm2.uninstall"), f),
                           "pm2.uninstall")
              ELSE p.w
    IN  Return(w2, Void)

\* Mutant of LinuxStop: PM2 is chosen on availability alone.
LinuxStop_Pm2IfAvailable(w, f) ==
    LET s == SystemdAvailableAndEnabled(w)
    IN  IF s.ret THEN stopSystemdService(Call(s.w, "sd.stop"), f)
        ELSE
        LET p == ProbePm2(s.w, f)
        IN  IF p.ret THEN stopPm2Service(Call(p.w, "pm2.stop"), f)
            ELSE stopSystemdService(Call(p.w, "sd.stop"), f)

LinuxStop(w, f) ==
    LET s == SystemdAvailableAndEnabled(w)
    IN  IF s.ret THEN stopSystemdService(Call(s.w, "sd.stop"), f)
        ELSE
        LET p == Pm2AvailableAndEnabled(s.w, f)
        IN  IF p.ret THEN stopPm2Service(Call(p.w, "pm2.stop"), f)
            ELSE stopSystemdService(Call(p.w, "sd.stop"), f)

LinuxRestart(w, f) ==
    LET s == SystemdAvailableAndEnabled(w)
    IN  IF s.ret THEN restartSystemdService(Call(s.w, "sd.restart"), f)
        ELSE
        LET p == Pm2AvailableAndEnabled(s.w, f)
        IN  IF p.ret THEN restartPm2Service(Call(p.w, "pm2.restart"), f)
            ELSE
            LET s2 == ProbeSystemd(p.w)
            IN  IF s2.ret THEN restartSystemdService(Call(s2.w, "sd.restart"), f)
                ELSE
                LET p2 == ProbePm2(s2.w, f)
                IN  IF p2.ret
                    THEN restartPm2Service(Call(p2.w, "pm2.restart"), f)
                    ELSE restartSystemdService(Call(p2.w, "sd.restart"), f)

\* Mutant of LinuxIsLoaded: only systemd-user is asked.
LinuxIsLoaded_SystemdOnly(w, f) ==
    LET s == SystemdAvailableAndEnabled(w)
    IN  Return(s.w, Bool(s.ret))

LinuxIsLoaded(w, f) ==
    LET s == SystemdAvailableAndEnabled(w)
    IN  IF s.ret THEN Return(s.w, Bool(TRUE))
        ELSE
        LET p == Pm2AvailableAndEnabled(s.w, f)
        IN  IF p.ret THEN Return(p.w, Bool(TRUE)) ELSE Return(p.w, Bool(FALSE))

\* Mutant of LinuxReadCommand: PM2 is read before systemd-user.
LinuxReadCommand_Pm2First(w, f) ==
    LET p == ProbePm2(w, f)
        r == IF p.ret THEN readPm2ServiceCommand(Call(p.w, "pm2.readCommand"), f)
             ELSE Return(p.w, Null)
    IN  IF r.ret # Null THEN r
        ELSE
        LET s == ProbeSystemd(r.w)
        IN  IF s.ret
            THEN Return(Call(s.w, "sd.readCommand"),
                        readSystemdServiceExecStart(s.w, f))
            ELSE Return(s.w, Null)

LinuxReadCommand(w, f) ==
    LET s == ProbeSystemd(w)
        cmd == IF s.ret THEN readSystemdServiceExecStart(s.w, f) ELSE Null
        w1 == IF s.ret THEN Call(s.w, "sd.readCommand") ELSE s.w
    IN  IF cmd # Null THEN Return(w1, cmd)
        ELSE
        LET p == ProbePm2(w1, f)
        IN  IF p.ret
            THEN readPm2ServiceCommand(Call(p.w, "pm2.readCommand"), f)
            ELSE Return(p.w, Null)

\* Mutant of LinuxReadRuntime: the systemd-user status is returned even when
\* it reports missingUnit.
LinuxReadRuntime_NoFallThrough(w, f) ==
    LET s == ProbeSystemd(w)
        rt == readSystemdServiceRuntime(s.w, f)
    IN  IF s.ret THEN Return(Call(s.w, "sd.readRuntime"), rt)
        ELSE
        LET p == ProbePm2(s.w, f)
        IN  IF p.ret
            THEN readPm2ServiceRuntime(Call(p.w, "pm2.readRuntime"), f)
            ELSE Return(p.w, [status |-> "unknown",
                              detail |-> "Systemd/PM2 unavailable"])

LinuxReadRuntime(w, f) ==
    LET s == ProbeSystemd(w)
        rt == readSystemdServiceRuntime(s.w, f)
        w1 == IF s.ret THEN Call(s.w, "sd.readRuntime") ELSE s.w
    IN  IF s.ret /\ ~MissingUnit(rt) THEN Return(w1, rt)
        ELSE
        LET p == ProbePm2(w1, f)
        IN  IF p.ret
            THEN readPm2ServiceRuntime(Call(p.w, "pm2.readRuntime"), f)
            ELSE Return(p.w, [status |-> "unknown",
                              detail |-> "Systemd/PM2 unavailable"])

----------------------------------------------------------------------------
(* proxy-fetch.ts *)

\* Function values.  The platform's fetch, or one put in place by the
\* embedder before this module is used.
NativeFetch == [kind |-> "native"]
PolyfillFetch == [kind |-> "polyfill"]
\* `undefined` where a function is expected.
NoFetch == [kind |-> "undefined"]

\* Proxy URLs handed to installProxyFetch; BadUrl is a string that is no URL.
ProxyUrls == {"http://127.0.0.1:7890", "http://10.0.0.1:3128", "http://proxy:8080"}
BadUrl == "not a url"

\* new ProxyAgent(proxyUrl) throws on a string that is no URL.
ProxyAgentThrows(proxyUrl) == proxyUrl = BadUrl

\* The closure proxyFetch: it keeps the agent, and reads the module-level
\* originalFetch each time it is called.
ProxyFetchOf(proxyUrl) == [kind |-> "proxyFetch", agent |-> proxyUrl]

\* wrapFetchWithAbortSignal(fn): a new function that calls fn.
wrapFetchWithAbortSignal(fn) == [kind |-> "abortWrapped", fn |-> fn]

\* A function this module created.
IsProxyWrapper(fn) == fn.kind \in {"proxyFetch", "abortWrapped"}

\* The module state as a record.
ProxyState ==
    [fetch |-> globalFetch, originalFetch |-> originalFetch,
     proxyInstalled |-> proxyInstalled, installedProxyUrl |-> installedProxyUrl]

uninstallProxyFetch_KeepsGlobal(m) ==
    IF ~m.proxyInstalled \/ m.originalFetch = NoFetch THEN m
    ELSE [m EXCEPT !.originalFetch = NoFetch,
                   !.proxyInstalled = FALSE,
                   !.installedProxyUrl = Undefined]

uninstallProxyFetch(m) ==
    IF ~m.proxyInstalled \/ m.originalFetch = NoFetch THEN m
    ELSE [m EXCEPT !.fetch = m.originalFetch,
                   !.originalFetch = NoFetch,
                   !.proxyInstalled = FALSE,
                   !.installedProxyUrl = Undefined]

installProxyFetch_NoTeardown(m, proxyUrl) ==
    IF m.proxyInstalled /\ m.installedProxyUrl = proxyUrl
    THEN [m |-> m, thrown |-> FALSE]
    ELSE LET m2 == [m EXCEPT !.originalFetch = m.fetch]
         IN  IF ProxyAgentThrows(proxyUrl)
             THEN [m |-> m2, thrown |-> TRUE]
             ELSE [m |-> [m2 EXCEPT
                            !.fetch = wrapFetchWithAbortSignal(ProxyFetchOf(proxyUrl)),
                            !.proxyInstalled = TRUE,
                            !.installedProxyUrl = proxyUrl],
                   thrown |-> FALSE]

installProxyFetch(m, proxyUrl) ==
    IF m.proxyInstalled /\ m.installedProxyUrl = proxyUrl
    THEN [m |-> m, thrown |-> FALSE]
    ELSE LET m1 == IF m.proxyInstalled THEN uninstallProxyFetch(m) ELSE m
             m2 == [m1 EXCEPT !.originalFetch = m1.fetch]
         IN  IF ProxyAgentThrows(proxyUrl)
             THEN [m |-> m2, thrown |-> TRUE]
             ELSE [m |-> [m2 EXCEPT
                            !.fetch = wrapFetchWithAbortSignal(ProxyFetchOf(proxyUrl)),
                            !.proxyInstalled = TRUE,
                            !.installedProxyUrl = proxyUrl],
                   thrown |-> FALSE]

isProxyFetchInstalled(m) == m.proxyInstalled

getInstalledProxyUrl(m) == m.installedProxyUrl

\* What a call of fn does: the dispatchers added on the way down, and the
\* function that finally performs the request.  Calling undefined is a
\* TypeError; a chain that never ends overflows the stack.
RECURSIVE CallFetch(_, _, _)
CallFetch(fn, m, depth) ==
    IF depth = 0 THEN [via |-> <<>>, base |-> "RangeError"]
    ELSE IF fn.kind = "undefined" THEN [via |-> <<>>, base |-> "TypeError"]
    ELSE IF fn.kind = "abortWrapped" THEN CallFetch(fn.fn, m, depth)
    ELSE IF fn.kind = "proxyFetch"
         THEN LET r == CallFetch(m.originalFetch, m, depth - 1)
              IN  [via |-> <<fn.agent>> \o r.via, base |-> r.base]
    ELSE [via |-> <<>>, base |-> fn.kind]

----------------------------------------------------------------------------
(* The state machine *)

Env ==
    [sdAvail |-> sdAvail, sdUnit |-> sdUnit, pm2Avail |-> pm2Avail,
     pm2List |-> pm2List, pm2Dump |-> pm2Dump]

\* The ways `pm2 jlist` can go wrong: a nonzero exit, output that is no
\* JSON, JSON that is no array, entries without pm2_env, entries whose
\* pm2_env has no status.
JlistFaults ==
    {{}, {"jlist"}, {"jlist.garbage"}, {"jlist.object"}, {"jlist.noenv"},
     {"jlist.nostatus"}}

\* The proxy-fetch module as loaded: nothing installed.
ProxyLoaded(f) ==
    /\ globalFetch = f
    /\ firstFetch = f
    /\ originalFetch = NoFetch
    /\ proxyInstalled = FALSE
    /\ installedProxyUrl = Undefined
    /\ lastUrl = Undefined
    /\ pxOp = "init"
    /\ pxArg = Undefined
    /\ pxPre = [fetch |-> f, originalFetch |-> NoFetch,
                proxyInstalled |-> FALSE, installedProxyUrl |-> Undefined]
    /\ pxThrown = FALSE
    /\ pxRet = Void

Init ==
    /\ ProxyLoaded(NativeFetch)
    /\ sdAvail \in BOOLEAN
    /\ pm2Avail \in BOOLEAN
    /\ sdUnit = "none"
    /\ pm2List = <<>>
    /\ pm2Dump = FALSE
    /\ op = "init"
    /\ faults = {}
    /\ pre = Env
    /\ calls = <<>>
    /\ cmds = <<>>
    /\ out = <<>>
    /\ caught = <<>>
    /\ thrown = FALSE
    /\ err = NoErr
    /\ ret = Void

\* No operation is in progress: the caller awaits one operation at a time.
Idle == op \in {"init", "idle"}

\* One handler, run to its end on the current world.
Run(name, f, res) ==
    /\ Idle
    /\ op' = name
    /\ faults' = f
    /\ pre' = Env
    /\ sdAvail' = res.w.sdAvail
    /\ sdUnit' = res.w.sdUnit
    /\ pm2Avail' = res.w.pm2Avail
    /\ pm2List' = res.w.pm2List
    /\ pm2Dump' = res.w.pm2Dump
    /\ calls' = res.w.calls
    /\ cmds' = res.w.cmds
    /\ out' = res.w.out
    /\ caught' = res.w.caught
    /\ thrown' = res.thrown
    /\ err' = res.err
    /\ ret' = res.ret
    /\ UNCHANGED proxyVars

Install ==
    \E f \in SUBSET {"sd.install", "delete", "start", "save"} :
        Run("install", f, LinuxInstall(World, f))

Uninstall ==
    \E f \in SUBSET {"sd.uninstall", "delete", "save"} :
        Run("uninstall", f, LinuxUninstall(World, f))

Stop ==
    \E f \in SUBSET {"sd.stop", "describe", "stop"} :
        Run("stop", f, LinuxStop(World, f))

Restart ==
    \E f \in SUBSET {"sd.restart", "describe", "restart"} :
        Run("restart", f, LinuxRestart(World, f))

IsLoaded ==
    \E f \in SUBSET {"describe"} :
        Run("isLoaded", f, LinuxIsLoaded(World, f))

ReadCommand ==
    \E f \in SUBSET {"sd.read"}, j \in JlistFaults :
        Run("readCommand", f \cup j, LinuxReadCommand(World, f \cup j))

ReadRuntime ==
    \E f \in SUBSET {"sd.runtime"}, j \in JlistFaults :
        Run("readRuntime", f \cup j, LinuxReadRuntime(World, f \cup j))

\* The PM2 adapter's exports, called directly.
Pm2Install ==
    \E f \in SUBSET {"delete", "start", "save"} :
        Run("pm2.install", f, installPm2Service(World, f))

Pm2Uninstall ==
    \E f \in SUBSET {"delete", "save"} :
        Run("pm2.uninstall", f, uninstallPm2Service(World, f))

Pm2Stop ==
    \E f \in SUBSET {"stop"} : Run("pm2.stop", f, stopPm2Service(World, f))

Pm2Restart ==
    \E f \in SUBSET {"restart"} : Run("pm2.restart", f, restartPm2Service(World, f))

Pm2ReadRuntime ==
    \E j \in JlistFaults : Run("pm2.readRuntime", j, readPm2ServiceRuntime(World, j))

Pm2ReadCommand ==
    \E j \in JlistFaults : Run("pm2.readCommand", j, readPm2ServiceCommand(World, j))

\* The caller takes the result; the resolver holds no state between calls.
Forget ==
    /\ op' = "idle"
    /\ faults' = {}
    /\ calls' = <<>>
    /\ cmds' = <<>>
    /\ out' = <<>>
    /\ caught' = <<>>
    /\ thrown' = FALSE
    /\ err' = NoErr
    /\ ret' = Void

Returns ==
    /\ ~Idle
    /\ Forget
    /\ pre' = Env
    /\ UNCHANGED <<sdAvail, sdUnit, pm2Avail, pm2List, pm2Dump>>
    /\ UNCHANGED proxyVars

\* The world changes between two operations.
Changed(w) ==
    /\ Idle
    /\ Forget
    /\ sdAvail' = w.sdAvail
    /\ sdUnit' = w.sdUnit
    /\ pm2Avail' = w.pm2Avail
    /\ pm2List' = w.pm2List
    /\ pm2Dump' = w.pm2Dump
    /\ pre' = [sdAvail |-> w.sdAvail, sdUnit |-> w.sdUnit, pm2Avail |-> w.pm2Avail,
               pm2List |-> w.pm2List, pm2Dump |-> w.pm2Dump]
    /\ UNCHANGED proxyVars

SystemdToggles == Changed([World EXCEPT !.sdAvail = ~@])

Pm2Toggles == Changed([World EXCEPT !.pm2Avail = ~@])

ForeignEntry(status) ==
    [name |-> FOREIGN, status |-> status,
     pid |-> IF status = "online" THEN 201 ELSE 0, exit_code |-> 0]

ForeignStarts ==
    /\ NumOthers(pm2List) < MaxOthers
    /\ \E status \in {"online", "stopped"}, atHead \in BOOLEAN :
          Changed([World EXCEPT !.pm2List =
                      IF atHead THEN <<ForeignEntry(status)>> \o @
                      ELSE Append(@, ForeignEntry(status))])

ForeignLeaves ==
    /\ NumOthers(pm2List) > 0
    /\ Changed([World EXCEPT !.pm2List = SelectSeq(@, IsSvc)])

CrashEntry(p) ==
    IF p.name = SVC /\ p.status = "online"
    THEN [p EXCEPT !.status = "errored", !.pid = 0, !.exit_code = 1] ELSE p

CrashAll(list) == [i \in 1..Len(list) |-> CrashEntry(list[i])]

ServiceCrashes ==
    /\ \E i \in 1..Len(pm2List) : pm2List[i].name = SVC /\ pm2List[i].status = "online"
    /\ Changed([World EXCEPT !.pm2List = CrashAll(@)])

UnitExits ==
    /\ sdUnit = "active"
    /\ Changed([World EXCEPT !.sdUnit = "inactive"])

Next ==
    \/ Install \/ Uninstall \/ Stop \/ Restart
    \/ IsLoaded \/ ReadCommand \/ ReadRuntime
    \/ Pm2Install \/ Pm2Uninstall \/ Pm2Stop \/ Pm2Restart
    \/ Pm2ReadRuntime \/ Pm2ReadCommand
    \/ SystemdToggles \/ Pm2Toggles \/ ForeignStarts \/ ForeignLeaves
    \/ ServiceCrashes \/ UnitExits \/ Returns

Spec == Init /\ [][Next]_vars

\* The resolver's install and uninstall alone, interleaved with changes of
\* backend availability: nothing else touches the registrations.
LifecycleNext ==
    \/ Install \/ Uninstall \/ SystemdToggles \/ Pm2Toggles \/ Returns

LifecycleSpec == Init /\ [][LifecycleNext]_vars

\* The proxy-fetch component on its own: the service layer stays as loaded.
ProxyInit ==
    /\ \E f \in {NativeFetch, PolyfillFetch} : ProxyLoaded(f)
    /\ sdAvail = FALSE
    /\ pm2Avail = FALSE
    /\ sdUnit = "none"
    /\ pm2List = <<>>
    /\ pm2Dump = FALSE
    /\ op = "init"
    /\ faults = {}
    /\ pre = Env
    /\ calls = <<>>
    /\ cmds = <<>>
    /\ out = <<>>
    /\ caught = <<>>
    /\ thrown = FALSE
    /\ err = NoErr
    /\ ret = Void

\* One exported function, run to its end on the module state.
ProxyRun(name, arg, m, t, r) ==
    /\ pxOp' = name
    /\ pxArg' = arg
    /\ pxPre' = ProxyState
    /\ globalFetch' = m.fetch
    /\ originalFetch' = m.originalFetch
    /\ proxyInstalled' = m.proxyInstalled
    /\ installedProxyUrl' = m.installedProxyUrl
    /\ pxThrown' = t
    /\ pxRet' = r
    /\ UNCHANGED firstFetch
    /\ UNCHANGED svcVars

InstallProxyFetch ==
    \E proxyUrl \in ProxyUrls \cup {BadUrl} :
        LET res == installProxyFetch(ProxyState, proxyUrl)
        IN  /\ ProxyRun("installProxyFetch", proxyUrl, res.m, res.thrown, Void)
            /\ lastUrl' = IF res.thrown THEN lastUrl ELSE proxyUrl

UninstallProxyFetch ==
    /\ ProxyRun("uninstallProxyFetch", Undefined,
                uninstallProxyFetch(ProxyState), FALSE, Void)
    /\ UNCHANGED lastUrl

IsProxyFetchInstalled ==
    /\ ProxyRun("isProxyFetchInstalled", Undefined, ProxyState, FALSE,
                Bool(isProxyFetchInstalled(ProxyState)))
    /\ UNCHANGED lastUrl

GetInstalledProxyUrl ==
    /\ ProxyRun("getInstalledProxyUrl", Undefined, ProxyState, FALSE,
                [kind |-> "url", url |-> getInstalledProxyUrl(ProxyState)])
    /\ UNCHANGED lastUrl

\* Some call site calls globalThis.fetch.
FetchCalled ==
    /\ ProxyRun("fetch", Undefined, ProxyState, FALSE,
                CallFetch(globalFetch, ProxyState, MaxDepth))
    /\ UNCHANGED lastUrl

ProxyNext ==
    \/ InstallProxyFetch \/ UninstallProxyFetch
    \/ IsProxyFetchInstalled \/ GetInstalledProxyUrl \/ FetchCalled

ProxySpec == ProxyInit /\ [][ProxyNext]_vars

----------------------------------------------------------------------------
(* Properties *)

\* The world the last operation started from.
PreWorld ==
    [sdAvail |-> pre.sdAvail, sdUnit |-> pre.sdUnit, pm2Avail |-> pre.pm2Avail,
     pm2List |-> pre.pm2List, pm2Dump |-> pre.pm2Dump,
     calls |-> <<>>, cmds |-> <<>>, out |-> <<>>, caught |-> <<>>]

\* systemd-user was available and reported the service enabled.
PreSdEnabled == pre.sdAvail /\ pre.sdUnit # "none"

\* PM2 was available and `pm2 describe <name>` exited 0.
PrePm2Enabled == pre.pm2Avail /\ HasSvc(pre.pm2List) /\ "describe" \notin faults

IsInstallPrim(c) == c \in {"sd.install", "pm2.install"}
IsStopPrim(c) == c \in {"sd.stop", "pm2.stop"}
IsRestartPrim(c) == c \in {"sd.restart", "pm2.restart"}
IsPm2Call(c) == c \in {"pm2.avail", "pm2.enabled", "pm2.install", "pm2.uninstall",
                       "pm2.stop", "pm2.restart", "pm2.readCommand", "pm2.readRuntime"}

Called(c) == \E i \in 1..Len(calls) : calls[i] = c

SvcOnline(list) ==
    \E i \in 1..Len(list) : list[i].name = SVC /\ list[i].status = "online"

\* C1: on Linux readRuntime returns the systemd-user status when systemd-user
\* is available and its status has no missingUnit; when systemd-user is
\* unavailable or reports missingUnit and PM2 is available it returns exactly
\* PM2's status (missingUnit plus a running PM2 process gives "running"); when
\* neither backend is available it returns the "Systemd/PM2 unavailable"
\* unknown status.
C1_ReadRuntimePrecedence ==
    op = "readRuntime" =>
        LET sdRt == readSystemdServiceRuntime(PreWorld, faults)
            pmRt == readPm2ServiceRuntime(PreWorld, faults).ret
            viaSd == pre.sdAvail /\ ~MissingUnit(sdRt)
        IN  /\ ~thrown
            /\ viaSd => ret = sdRt
            /\ (~viaSd /\ pre.pm2Avail) => ret = pmRt
            /\ (pre.sdAvail /\ MissingUnit(sdRt) /\ pre.pm2Avail
                    /\ SvcOnline(pre.pm2List) /\ faults = {})
                 => ret.status = "running"
            /\ (~pre.sdAvail /\ ~pre.pm2Avail)
                 => ret = [status |-> "unknown", detail |-> "Systemd/PM2 unavailable"]

\* systemd-user answered missingUnit and the running PM2 process was reported.
C1_Witness ==
    /\ op = "readRuntime"
    /\ pre.sdAvail /\ pre.sdUnit = "none" /\ pre.pm2Avail
    /\ Called("sd.readRuntime") /\ Called("pm2.readRuntime")
    /\ ret.status = "running"

\* C2: on Linux stop invokes exactly one backend stop primitive: systemd-user
\* if it is available and reports the service enabled, otherwise PM2 if it is
\* available and reports the service enabled, otherwise systemd-user.
C2_StopPrecedence ==
    op = "stop" =>
        SelectSeq(calls, IsStopPrim) =
            << IF PreSdEnabled THEN "sd.stop"
               ELSE IF PrePm2Enabled THEN "pm2.stop"
               ELSE "sd.stop" >>

\* stop went to PM2, which held the service while systemd-user was available
\* without the unit, and stopped the process.
C2_Witness ==
    /\ op = "stop"
    /\ pre.sdAvail /\ ~PreSdEnabled /\ PrePm2Enabled
    /\ SelectSeq(calls, IsStopPrim) = <<"pm2.stop">>
    /\ SvcOnline(pre.pm2List) /\ ~SvcOnline(pm2List)

\* The backend a primitive call belongs to.
Backend(c) == IF IsPm2Call(c) THEN "pm2" ELSE "systemd"

BackendsOf(seq) == [i \in 1..Len(seq) |-> Backend(seq[i])]

\* C3: on Linux restart applies the same precedence as stop in every
\* combination of availability and enablement (systemd-user-enabled, then
\* PM2-enabled, then systemd-user forced), and never targets PM2 when PM2
\* does not report the service enabled.
C3_RestartSamePrecedenceAsStop ==
    op = "restart" =>
        /\ BackendsOf(SelectSeq(calls, IsRestartPrim)) =
             BackendsOf(SelectSeq(LinuxStop(PreWorld, faults).w.calls, IsStopPrim))
        /\ Called("pm2.restart") => PrePm2Enabled

\* C4: on Linux install invokes exactly one backend install: systemd-user if
\* its probe is true, else PM2 if its probe is true, else systemd-user anyway,
\* and an install with no backend available ends in an error and installs
\* nothing.
C4_InstallPrecedence ==
    op = "install" =>
        /\ SelectSeq(calls, IsInstallPrim) =
             << IF pre.sdAvail THEN "sd.install"
                ELSE IF pre.pm2Avail THEN "pm2.install"
                ELSE "sd.install" >>
        /\ (~pre.sdAvail /\ ~pre.pm2Avail) => (thrown /\ Env = pre)

\* install with no backend available attempted systemd-user and failed.
C4_Witness ==
    /\ op = "install"
    /\ ~pre.sdAvail /\ ~pre.pm2Avail
    /\ calls = <<"sd.avail", "pm2.avail", "sd.install">>
    /\ thrown

\* C5: on Linux uninstall unconditionally attempts removal on both
\* systemd-user and PM2, so that after it returns no registration of the
\* service is left on either backend.
C5_UninstallBothUnconditionally ==
    op = "uninstall" =>
        /\ Called("sd.uninstall") /\ Called("pm2.uninstall")
        /\ sdUnit = "none" /\ ~HasSvc(pm2List)

\* C5, amended: uninstall attempts removal on every backend whose probe is
\* true, whichever backend holds the service, and on no other; a backend that
\* was available and whose removal did not fail holds no registration
\* afterwards, and a backend that was unavailable keeps what it had.
C5_UninstallEveryAvailableBackend ==
    op = "uninstall" =>
        /\ Called("sd.uninstall") <=> pre.sdAvail
        /\ Called("pm2.uninstall") <=> pre.pm2Avail
        /\ (pre.sdAvail /\ "sd.uninstall" \notin faults) => sdUnit = "none"
        /\ (pre.pm2Avail /\ "delete" \notin faults) => ~HasSvc(pm2List)
        /\ ~pre.sdAvail => sdUnit = pre.sdUnit
        /\ ~pre.pm2Avail => pm2List = pre.pm2List

\* Both backends held the service and both were cleaned by one uninstall.
C5_Witness ==
    /\ op = "uninstall"
    /\ pre.sdUnit # "none" /\ HasSvc(pre.pm2List)
    /\ calls = <<"sd.avail", "sd.uninstall", "pm2.avail", "pm2.uninstall">>
    /\ sdUnit = "none" /\ ~HasSvc(pm2List)

\* C6: on Linux uninstall never propagates an error, a failure of the
\* systemd-user removal does not prevent the PM2 removal attempt, and
\* uninstall when no unit was ever installed succeeds and changes nothing.
C6_UninstallNeverThrows ==
    op = "uninstall" =>
        /\ ~thrown /\ err = NoErr /\ ret = Void
        /\ (Called("sd.uninstall") /\ pre.pm2Avail) => Called("pm2.uninstall")
        /\ (pre.sdUnit = "none" /\ ~HasSvc(pre.pm2List) /\ ~pre.pm2Dump) => Env = pre

\* The systemd-user removal threw, the error was swallowed and PM2 was still
\* cleaned.
C6_Witness ==
    /\ op = "uninstall"
    /\ caught = <<"sd.uninstall">>
    /\ HasSvc(pre.pm2List) /\ ~HasSvc(pm2List)
    /\ ~thrown

\* C7: on Linux isLoaded is true exactly when at least one backend is
\* available and reports the service enabled, and PM2 is not queried once
\* systemd-user has reported enabled.
C7_IsLoadedIsOr ==
    op = "isLoaded" =>
        /\ ~thrown
        /\ ret = Bool(PreSdEnabled \/ PrePm2Enabled)
        /\ PreSdEnabled => (cmds = <<>> /\ SelectSeq(calls, IsPm2Call) = <<>>)

\* isLoaded answered true from PM2 after systemd-user reported not enabled.
C7_Witness ==
    /\ op = "isLoaded"
    /\ pre.sdAvail /\ ~PreSdEnabled
    /\ calls = <<"sd.avail", "sd.enabled", "pm2.avail", "pm2.enabled">>
    /\ ret = Bool(TRUE)

JlistFaultNames == {"jlist", "jlist.garbage", "jlist.object", "jlist.noenv"}

SystemdCommand == [kind |-> "command", backend |-> "systemd"]
Pm2Command == [kind |-> "command", backend |-> "pm2"]

\* C8: on Linux readCommand returns the systemd-user snapshot if systemd-user
\* is available and yields one, otherwise the PM2 snapshot if PM2 is available
\* and yields one, otherwise null; it returns null and no error when no unit
\* is installed or PM2's process list cannot be read or parsed.
C8_ReadCommandFirstNonNull ==
    op = "readCommand" =>
        LET sdHas == pre.sdAvail /\ pre.sdUnit # "none" /\ "sd.read" \notin faults
            pmHas == /\ pre.pm2Avail /\ HasSvc(pre.pm2List)
                     /\ faults \cap JlistFaultNames = {}
        IN  /\ ~thrown
            /\ ret = IF sdHas THEN SystemdCommand
                      ELSE IF pmHas THEN Pm2Command
                      ELSE Null

\* systemd-user was asked and had no unit; the PM2 snapshot was returned.
C8_Witness ==
    /\ op = "readCommand"
    /\ calls = <<"sd.avail", "sd.readCommand", "pm2.avail", "pm2.readCommand">>
    /\ ret = Pm2Command

\* C9: the PM2 adapter's stop and restart fail with an error carrying the
\* backend's stderr/stdout whenever `pm2 stop` / `pm2 restart` exits nonzero,
\* and report success only when the command exited with code 0.
C9_Pm2StopRestartFailOnNonzeroExit ==
    op \in {"pm2.stop", "pm2.restart"} =>
        LET last == cmds[Len(cmds)]
        IN  /\ last.code # 0 => (thrown /\ err.kind = "Error")
            /\ ~thrown => (last.cmd \in {"stop", "restart"} /\ last.code = 0)

CmdNames == [i \in 1..Len(cmds) |-> cmds[i].cmd]

\* The exit code of the first run of cmd in the last operation, -1 if none.
ExitOf(cmd) ==
    IF \E i \in 1..Len(cmds) : cmds[i].cmd = cmd
    THEN cmds[CHOOSE i \in 1..Len(cmds) :
                 cmds[i].cmd = cmd /\ \A j \in 1..(i - 1) : cmds[j].cmd # cmd].code
    ELSE -1

\* C10: installPm2Service issues delete, start, save in that order; the
\* outcome of delete never fails the install; a nonzero exit of start raises
\* an error and save is not issued; a nonzero exit of save raises an error
\* although start succeeded; the install succeeds only if start and save both
\* exited 0.
C10_Pm2InstallSequence ==
    op = "pm2.install" =>
        /\ CmdNames \in {<<"--version">>,
                          <<"--version", "delete", "start">>,
                          <<"--version", "delete", "start", "save">>}
        /\ (ExitOf("start") > 0) =>
              /\ thrown /\ err.message = "pm2 start failed"
              /\ ExitOf("save") = -1
        /\ (ExitOf("save") > 0) =>
              /\ thrown /\ err.message = "pm2 save failed"
              /\ ExitOf("start") = 0
        /\ ~thrown <=> (ExitOf("start") = 0 /\ ExitOf("save") = 0)
        /\ (ExitOf("start") = 0 /\ ExitOf("save") = 0) =>
              out = <<"", "Installed PM2 service">>

\* start succeeded after a delete that found nothing, then save failed and
\* the install threw.
C10_Witness ==
    /\ op = "pm2.install"
    /\ ExitOf("delete") = 1 /\ ExitOf("start") = 0 /\ ExitOf("save") = 1
    /\ thrown /\ err.message = "pm2 save failed"

\* The unit registry and runtime state of both backends, without the pids
\* (a recreated process has a pid of its own).
Registry(w) ==
    [sdUnit |-> w.sdUnit,
     pm2List |-> [i \in 1..Len(w.pm2List) |->
                    [name |-> w.pm2List[i].name, status |-> w.pm2List[i].status]],
     pm2Dump |-> w.pm2Dump]

NumSvc(list) == Len(SelectSeq(list, IsSvc))

\* C11: install is idempotent: a second install right after the first, with
\* the same spec and the same backend availability, leaves the unit registry
\* and the runtime state as the first left them, with exactly one unit of the
\* derived name in the backend it installs to, and does not fail because the
\* unit already exists.
C11_InstallIdempotent ==
    (op = "install" /\ (~thrown \/ faults = {})) =>
        LET again == LinuxInstall(World, {})
        IN  /\ again.thrown = thrown
            /\ Registry(again.w) = Registry(World)
            /\ again.w.calls = calls
            /\ NumSvc(again.w.pm2List) <= 1
            /\ (~thrown /\ Called("pm2.install")) =>
                  /\ NumSvc(again.w.pm2List) = 1
                  /\ SvcOnline(again.w.pm2List)
            /\ (~thrown /\ Called("sd.install")) => again.w.sdUnit = "active"

\* An install through PM2 found the unit of an earlier install, deleted it
\* and recreated it.
C11_Witness ==
    /\ op = "install"
    /\ Called("pm2.install")
    /\ NumSvc(pre.pm2List) = 1 /\ pre.pm2Dump
    /\ ExitOf("delete") = 0 /\ ExitOf("start") = 0
    /\ ~thrown
    /\ Registry(World) = Registry(PreWorld)

\* C12: readPm2ServiceRuntime never throws: when PM2 is unavailable, when
\* `pm2 jlist` exits nonzero, or when its output is malformed or lacks the
\* expected fields, it returns a value with status "unknown".
C12_Pm2RuntimeUnknownOnAnyDefect ==
    op = "pm2.readRuntime" =>
        /\ ~thrown
        /\ (~pre.pm2Avail \/ (faults # {} /\ HasSvc(pre.pm2List)))
              => ret.status = "unknown"

\* C12, amended: readPm2ServiceRuntime never throws; it returns status
\* "unknown" when PM2 is unavailable, when `pm2 jlist` exits nonzero, when
\* its output is not a JSON array, and when the service's entry has no
\* pm2_env object; an entry whose pm2_env lacks status is not a failure and
\* is reported as "stopped".
C12_Pm2RuntimeNeverThrows ==
    op = "pm2.readRuntime" =>
        /\ ~thrown /\ err = NoErr
        /\ ~pre.pm2Avail => ret.status = "unknown"
        /\ (pre.pm2Avail /\ faults \cap {"jlist", "jlist.garbage", "jlist.object"} # {})
              => ret.status = "unknown"
        /\ (pre.pm2Avail /\ "jlist.noenv" \in faults /\ HasSvc(pre.pm2List))
              => ret = [status |-> "unknown"]
        /\ (pre.pm2Avail /\ "jlist.nostatus" \in faults /\ HasSvc(pre.pm2List))
              => (ret.status = "stopped" /\ ret.state = Undefined)

\* `pm2 jlist` printed the service's entry without pm2_env and the result
\* was the unknown status, not an exception.
C12_Witness ==
    /\ op = "pm2.readRuntime"
    /\ pre.pm2Avail /\ HasSvc(pre.pm2List)
    /\ faults = {"jlist.noenv"}
    /\ ~thrown /\ ret = [status |-> "unknown"]

\* The entry of the service in a PM2 process list that holds one.
SvcOf(list) == list[CHOOSE i \in 1..Len(list) : list[i].name = SVC]

\* C13: readPm2ServiceRuntime identifies the service in the `pm2 jlist` list
\* only by the entry whose name is the resolved service name, returns
\* "running" exactly when that entry's pm2_env.status is "online" and
\* "stopped" for any other status, passes state, pid and exit_code through,
\* and entries of other names never influence the result.
C13_Pm2RuntimeByName ==
    (op = "pm2.readRuntime" /\ pre.pm2Avail /\ faults = {}) =>
        IF HasSvc(pre.pm2List)
        THEN LET e == SvcOf(pre.pm2List)
             IN  /\ ret = [status |-> IF e.status = "online"
                                      THEN "running" ELSE "stopped",
                           state |-> e.status,
                           pid |-> e.pid,
                           lastExitStatus |-> e.exit_code]
                 /\ ret = readPm2ServiceRuntime(
                              [PreWorld EXCEPT !.pm2List = SelectSeq(@, IsSvc)],
                              faults).ret
        ELSE ret = [status |-> "stopped", missingUnit |-> TRUE]

\* The list began with another application's online process; the service,
\* second in the list and not online, was reported stopped.
C13_Witness ==
    /\ op = "pm2.readRuntime"
    /\ pre.pm2Avail /\ faults = {}
    /\ Len(pre.pm2List) = 2
    /\ pre.pm2List[1].name = FOREIGN /\ pre.pm2List[1].status = "online"
    /\ pre.pm2List[2].name = SVC /\ pre.pm2List[2].status = "errored"
    /\ ret.status = "stopped" /\ ret.state = "errored" /\ ret.lastExitStatus = 1

\* C14: every RuntimeStatus returned by readPm2ServiceRuntime and by the
\* Linux readRuntime satisfies missingUnit = true => status = "stopped", and
\* missingUnit is set only after a successful query found no unit, never
\* together with status "unknown".
C14_MissingUnitImpliesStopped ==
    (op \in {"pm2.readRuntime", "readRuntime"} /\ MissingUnit(ret)) =>
        /\ ret.status = "stopped"
        /\ ExitOf("jlist") = 0
        /\ ~HasSvc(pre.pm2List)
        /\ op = "readRuntime" =>
              (~pre.sdAvail \/ MissingUnit(readSystemdServiceRuntime(PreWorld, faults)))

\* The Linux readRuntime found the unit on neither backend and answered
\* stopped with missingUnit.
C14_Witness ==
    /\ op = "readRuntime"
    /\ calls = <<"sd.avail", "sd.readRuntime", "pm2.avail", "pm2.readRuntime">>
    /\ ret = [status |-> "stopped", missingUnit |-> TRUE]

IsSdQuery(c) == c \in {"sd.enabled", "sd.readCommand", "sd.readRuntime"}

\* The service is registered under PM2 only, and PM2 is available.
PrePm2Only == pre.sdUnit = "none" /\ pre.pm2Avail /\ HasSvc(pre.pm2List)

\* C15: on Linux, when the service is registered only under PM2 and PM2 is
\* available, then whether systemd-user is unavailable or has become
\* available without such a unit, stop, restart, isLoaded, readCommand and
\* readRuntime act on or report the PM2 registration; and while the
\* systemd-user probe is false, isLoaded, readCommand and readRuntime issue
\* no systemd-user query.
C15_Pm2OnlyServiceIsServed ==
    /\ (PrePm2Only /\ faults = {}) =>
          /\ op = "stop" =>
                /\ SelectSeq(calls, IsStopPrim) = <<"pm2.stop">>
                /\ ~thrown /\ ~SvcOnline(pm2List)
          /\ op = "restart" =>
                /\ SelectSeq(calls, IsRestartPrim) = <<"pm2.restart">>
                /\ ~thrown /\ SvcOnline(pm2List)
          /\ op = "isLoaded" => ret = Bool(TRUE)
          /\ op = "readCommand" => ret = Pm2Command
          /\ op = "readRuntime" =>
                ret = readPm2ServiceRuntime(PreWorld, faults).ret
    /\ (op \in {"isLoaded", "readCommand", "readRuntime"} /\ ~pre.sdAvail) =>
          SelectSeq(calls, IsSdQuery) = <<>>

\* The service was installed under PM2, systemd-user is available and has no
\* such unit, and restart restarted the PM2 process.
C15_Witness ==
    /\ op = "restart"
    /\ PrePm2Only /\ pre.sdAvail /\ faults = {}
    /\ ~SvcOnline(pre.pm2List) /\ SvcOnline(pm2List)
    /\ calls = <<"sd.avail", "sd.enabled", "pm2.avail", "pm2.enabled", "pm2.restart">>

UnavailableStatus == [status |-> "unknown", detail |-> "Systemd/PM2 unavailable"]

\* C18: on Linux readRuntime returns the "Systemd/PM2 unavailable" unknown
\* status only when both the systemd-user probe and the PM2 probe returned
\* false; whenever systemd-user was available and successfully queried, the
\* result is never that status.
C18_UnavailableOnlyWhenBothProbesFalse ==
    (op = "readRuntime" /\ ret = UnavailableStatus) =>
        (~pre.sdAvail /\ ~pre.pm2Avail)

\* C19: on Linux, after any sequence of install and uninstall operations
\* interleaved with changes of backend availability, the service is
\* registered in at most one of systemd-user and PM2 (checked under
\* LifecycleSpec, where only the resolver registers and unregisters).
C19_RegisteredInAtMostOneBackend ==
    ~(sdUnit # "none" /\ HasSvc(pm2List))

\* The backend whose adapter made the last call of a handler.
LastBackend(seq) == Backend(seq[Len(seq)])

\* C20: on Linux, in every backend state in which isLoaded returns true, the
\* backend whose status readRuntime returns is the backend that stop and
\* restart act on.
C20_ReadRuntimeAgreesWithStopRestart ==
    (op = "isLoaded" /\ ret = Bool(TRUE)) =>
        LET rt == LinuxReadRuntime(World, {})
            st == LinuxStop(World, faults)
            rs == LinuxRestart(World, faults)
        IN  /\ LastBackend(rt.w.calls) = LastBackend(st.w.calls)
            /\ LastBackend(rt.w.calls) = LastBackend(rs.w.calls)
            /\ IsStopPrim(st.w.calls[Len(st.w.calls)])
            /\ IsRestartPrim(rs.w.calls[Len(rs.w.calls)])
            /\ rt.w.calls[Len(rt.w.calls)] \in {"sd.readRuntime", "pm2.readRuntime"}

\* isLoaded answered true for a service that only PM2 holds, with
\* systemd-user available: readRuntime, stop and restart all go to PM2.
C20_Witness ==
    /\ op = "isLoaded" /\ ret = Bool(TRUE)
    /\ pre.sdAvail /\ pre.sdUnit = "none"
    /\ LastBackend(LinuxReadRuntime(World, {}).w.calls) = "pm2"
    /\ LastBackend(LinuxStop(World, faults).w.calls) = "pm2"

\* C16: re-installing the proxy fetch is idempotent.  installProxyFetch with
\* the installed URL changes nothing; with another URL it tears the previous
\* proxy down first, so the saved original fetch is never a function this
\* module created, a call of the global fetch passes through exactly one
\* proxy down to the first fetch, and getInstalledProxyUrl() is the URL of
\* the most recent install.
C16_ProxyReinstallIdempotent ==
    /\ ~IsProxyWrapper(originalFetch)
    /\ (pxOp = "installProxyFetch" /\ pxPre.proxyInstalled
            /\ pxPre.installedProxyUrl = pxArg) =>
          (ProxyState = pxPre /\ ~pxThrown)
    /\ (pxOp = "installProxyFetch" /\ ~pxThrown) =>
          /\ isProxyFetchInstalled(ProxyState)
          /\ getInstalledProxyUrl(ProxyState) = pxArg
          /\ originalFetch = firstFetch
          /\ globalFetch = wrapFetchWithAbortSignal(ProxyFetchOf(pxArg))
    /\ proxyInstalled =>
          /\ getInstalledProxyUrl(ProxyState) = lastUrl
          /\ CallFetch(globalFetch, ProxyState, MaxDepth) =
                [via |-> <<lastUrl>>, base |-> firstFetch.kind]

\* A proxy was installed and installProxyFetch was called with another URL.
C16_Witness ==
    /\ pxOp = "installProxyFetch" /\ ~pxThrown
    /\ pxPre.proxyInstalled
    /\ pxPre.installedProxyUrl # pxArg
    /\ installedProxyUrl = pxArg

\* C17: once uninstallProxyFetch has returned, the global fetch is the one
\* from before the first install, isProxyFetchInstalled() is false and
\* getInstalledProxyUrl() is undefined; with nothing installed it changes
\* nothing.
C17_UninstallRestoresOriginal ==
    pxOp = "uninstallProxyFetch" =>
        /\ globalFetch = firstFetch
        /\ ~isProxyFetchInstalled(ProxyState)
        /\ getInstalledProxyUrl(ProxyState) = Undefined
        /\ ~pxThrown
        /\ ~pxPre.proxyInstalled => ProxyState = pxPre

\* uninstallProxyFetch ran with a proxy installed over an embedder's fetch.
C17_Witness ==
    /\ pxOp = "uninstallProxyFetch"
    /\ pxPre.proxyInstalled
    /\ pxPre.fetch # globalFetch
    /\ globalFetch = PolyfillFetch

====
